---------------------------- MODULE Spec2Model ----------------------------
(***************************************************************************)
(* A model of the fighter service (src/service/fighter_service.py) and of  *)
(* the prediction page's callbacks (src/pages/predict.py).                 *)
(*                                                                         *)
(* Representation of Python values:                                        *)
(*   - a fighter name, a weight class and a feature code are TLA+ strings; *)
(*     None is the string None below, the empty str is "";                 *)
(*   - a float is a record [nan, v]; NaN is the one with nan = TRUE;       *)
(*   - a str the code strips or builds by concatenation is a sequence of   *)
(*     tokens, a blank being the token " " ("180.0 cms" is                 *)
(*     <<"180.0", " ", "cms">>), so that strip() and + are computed;       *)
(*   - a cell of the nickname column is a record [nan, obj, s]: a str with *)
(*     tokens s, or a NaN object obj.                                      *)
(***************************************************************************)
EXTENDS Integers, Sequences, FiniteSets, TLC

VARIABLES
    phase,                \* "loading" | "ready" | "failed" (FighterService() raised)
    fighters_csv,         \* csv/fighters.csv as read by pd.read_csv: a sequence of rows
    pipeline,             \* pickles/pipeline.pickle: bout row |-> class probabilities
    features,             \* the columns of the encoded bout: the attribution vector's index
    explainer,            \* shap.TreeExplainer: bout row |-> attribution vector
    fighters_df,          \* self.__fighters_df
    fighters,             \* self.__fighters
    weight_to_fighters,   \* self.__weight_to_fighters (a defaultdict(list))
    fighters_to_nicks,    \* self.__fighters_to_nicks
    latest_fights,        \* self.__latest_fights
    fighters_to_reach,    \* self.__fighters_to_reach
    fighters_to_height,   \* self.__fighters_to_height
    fighters_to_wins,     \* self.__fighters_to_wins
    fighters_to_losses,   \* self.__fighters_to_losses
    loaded,               \* history: the tables as __init__ left them
    ret,                  \* the last call of the service and what it returned
    weight_value,         \* weight-class-dropdown.value
    red_options,          \* red-corner.options (the values)
    blue_options,         \* blue-corner.options (the values)
    red_value,            \* red-corner.value
    blue_value,           \* blue-corner.value
    results               \* results.children, as makePrediction rendered it

tables == <<fighters_df, fighters, weight_to_fighters, fighters_to_nicks, latest_fights,
            fighters_to_reach, fighters_to_height, fighters_to_wins, fighters_to_losses>>
files  == <<fighters_csv, pipeline, features, explainer>>
page   == <<weight_value, red_options, blue_options, red_value, blue_value>>
vars   == <<phase, files, tables, loaded, ret, page, results>>

---------------------------------------------------------------------------
(* Bounds of the model. *)

\* The longest fighters.csv the model reads.
MaxRows == 2

\* Class probabilities are the multiples of 1/ProbScale in [0, 1].
ProbScale == 4

\* The fighters that may have rows in fighters.csv.
StatsFighters == {"Ann", "Bea"}

\* The names a caller may pass: the above, one only the nickname sheet knows
\* ("Dee"), one nobody knows ("Zed"), the empty string and None.
None == "<None>"
LookupArgs == StatsFighters \cup {"Dee", "Zed"}
PredictArgs == StatsFighters \cup {"Zed", "", None}
FactorArgs == StatsFighters \cup {""}

\* The weight classes that occur in fighters.csv.
CsvClasses == {"Lightweight", "Welterweight"}

---------------------------------------------------------------------------
(* Python values. *)

Float(x) == [nan |-> FALSE, v |-> x]
NaN == [nan |-> TRUE, v |-> 0]

\* a != b on floats: a NaN differs from everything, itself included.
PyNe(a, b) == IF a.nan \/ b.nan THEN TRUE ELSE a.v # b.v

\* str(x) of a float holding a whole number, and of an int.
StrFloat(x) == IF x.nan THEN "nan" ELSE ToString(x.v) \o ".0"
StrInt(n) == ToString(n)

\* s.strip() on a token string: the blanks at both ends go.
RECURSIVE LStrip(_)
LStrip(s) == IF s # <<>> /\ Head(s) = " " THEN LStrip(Tail(s)) ELSE s
RECURSIVE RStrip(_)
RStrip(s) == IF s # <<>> /\ s[Len(s)] = " " THEN RStrip(SubSeq(s, 1, Len(s) - 1)) ELSE s
Strip(s) == RStrip(LStrip(s))

\* not x, for x a str or None.
Falsy(x) == x \in {None, ""}

\* A cell of a str column: a str, or a NaN object (obj tells which: np.nan itself
\* is "np.nan").
StrCell(s) == [nan |-> FALSE, obj |-> "str", s |-> s]
NaNCell(o) == [nan |-> TRUE, obj |-> o, s |-> <<>>]

Range(s) == {s[i] : i \in DOMAIN s}
Perms(S) == {p \in [1..Cardinality(S) -> S] : Range(p) = S}


---------------------------------------------------------------------------
(* The input files. *)

StatColumns == {"Reach_cms", "Height_cms", "wins", "losses"}

\* Row i of fighters.csv with every statistic present. The columns are those the
\* service names (the file has no is_winner, _opponent or _ratio column for
\* __init__ to drop); date orders the fights and is not a numeric column.
CsvRow(i, f, w, d) ==
    [fighter |-> f, weight_class |-> w, date |-> d,
     Reach_cms |-> Float(170 + 10 * i), Height_cms |-> Float(160 + 10 * i),
     wins |-> Float(2 + i), losses |-> Float(i),
     Stance |-> IF f = "Ann" THEN "Orthodox" ELSE "Southpaw"]

\* The files of n rows: any fighter and class per row, the rows in date order or
\* in reverse date order, and at most one statistic of one row missing.
CsvFilesOfLen(n) ==
    { [i \in 1..n |->
          LET r == CsvRow(i, fw[i][1], fw[i][2], IF asc THEN i ELSE n + 1 - i)
          IN  IF miss[1] = i THEN [r EXCEPT ![miss[2]] = NaN] ELSE r]
      : fw \in [1..n -> StatsFighters \X CsvClasses],
        asc \in BOOLEAN,
        miss \in {<<0, "none">>} \cup ((1..n) \X StatColumns) }

CsvFiles == UNION {CsvFilesOfLen(n) : n \in 1..MaxRows}

\* Those with no statistic missing, and those of them in date order.
CompleteCsvFiles ==
    {csv \in CsvFiles : \A i \in DOMAIN csv : \A c \in StatColumns : ~csv[i][c].nan}
PlainCsvFiles == {csv \in CompleteCsvFiles : \A i \in DOMAIN csv : csv[i].date = i}

\* One fight of each fighter, nothing missing.
TwoFighterCsv ==
    <<CsvRow(1, "Ann", "Lightweight", 1), CsvRow(2, "Bea", "Lightweight", 2)>>

\* The nickname sheet: a nickname, a missing one (read_csv stores np.nan itself in
\* a column of strings) and a fighter without statistics.
SherdogCsv ==
    <<[name |-> "Ann", nick |-> StrCell(<<"The", " ", "Ace">>)],
      [name |-> "Bea", nick |-> NaNCell("np.nan")],
      [name |-> "Dee", nick |-> StrCell(<<"Dynamite">>)]>>

\* pickles/feature_to_name.pickle: two codes share a label up to blanks, one code
\* (f4) has no label.
FeatureCodes == <<"f1", "f2", "f3", "f4", "f5", "f6">>
FeatureToName ==
    [c \in {"f1", "f2", "f3", "f5", "f6"} |->
        CASE c = "f1" -> <<"Reach">>
          [] c = "f2" -> <<"Reach", " ">>
          [] c = "f3" -> <<" ", "Age">>
          [] c = "f5" -> <<"Wins">>
          [] c = "f6" -> <<"Takedown", " ", "defence">>]

\* A row of predict_proba: P(False) and P(True) in units of 1/ProbScale, summing to 1.
ProbaRows == {[False |-> ProbScale - t, True |-> t] : t \in 0..ProbScale}

\* The bout rows of two distinct fighters with statistics, by (fighter, opponent).
BoutKeys == {k \in StatsFighters \X StatsFighters : k[1] # k[2]}
Pipelines == [BoutKeys -> ProbaRows]

\* A pipeline that favours the first of the two names in alphabetical order.
FixedPipeline ==
    [k \in BoutKeys |->
        IF k[1] = "Ann" THEN [False |-> 0, True |-> ProbScale]
                        ELSE [False |-> ProbScale, True |-> 0]]

---------------------------------------------------------------------------
(* FighterService.__init__ *)

Min(S) == CHOOSE x \in S : \A y \in S : x <= y

\* The entries of s at the indexes in I, in index order.
RECURSIVE Pick(_, _)
Pick(s, I) == IF I = {} THEN <<>> ELSE <<s[Min(I)]>> \o Pick(s, I \ {Min(I)})

Column(df, c) == [i \in DOMAIN df |-> df[i][c]]

\* df.sort_values(by="date"), the dates being distinct.
SortValuesByDate(df) ==
    [k \in DOMAIN df |->
        df[CHOOSE i \in DOMAIN df :
              Cardinality({j \in DOMAIN df : df[j].date < df[i].date}) = k - 1]]

\* df.groupby("fighter").tail(1): the last row of each fighter, in df's order.
GroupByFighterTail(df) ==
    Pick(df, {i \in DOMAIN df : \A j \in DOMAIN df : j > i => df[j].fighter # df[i].fighter})

\* {k: v for k, v in zip(keys, vals)}: the last value of a key wins.
DictOfZip(keys, vals) ==
    [k \in Range(keys) |->
        vals[CHOOSE i \in DOMAIN keys : keys[i] = k /\ \A j \in DOMAIN keys : j > i => keys[j] # k]]

\* Mutant: the classes are taken from each fighter's latest row only.
WeightToFightersLatest(df) ==
    [w \in Range(Column(df, "weight_class")) |->
        Pick(Column(GroupByFighterTail(SortValuesByDate(df)), "fighter"),
             {i \in DOMAIN GroupByFighterTail(SortValuesByDate(df)) :
                 GroupByFighterTail(SortValuesByDate(df))[i].weight_class = w})]

\* defaultdict(list) filled by append, in the order of the rows.
WeightToFighters(df) ==
    [w \in Range(Column(df, "weight_class")) |->
        Pick(Column(df, "fighter"), {i \in DOMAIN df : df[i].weight_class = w})]

\* (str(r) + " cms") if r != np.NaN else "-"
FormatCms(r) == IF PyNe(r, NaN) THEN <<StrFloat(r), " ", "cms">> ELSE <<"-">>

\* int(w) raises ValueError on a NaN.
IntRaises(w) == w.nan

\* str(int(w)) if w != np.NaN else "-"
FormatCount(w) == IF PyNe(w, NaN) THEN <<StrInt(w.v)>> ELSE <<"-">>

\* Series.median(skipna=True); the statistics of the model are multiples of 10,
\* so the mean of the two middle values is whole.
Median(col) ==
    LET I == {i \in DOMAIN col : ~col[i].nan}
        Below(i) == Cardinality({j \in I : col[j].v < col[i].v \/ (col[j].v = col[i].v /\ j < i)})
        Sorted == [k \in 1..Cardinality(I) |-> col[CHOOSE i \in I : Below(i) = k - 1].v]
        n == Cardinality(I)
    IN  IF n = 0 THEN NaN
        ELSE IF n % 2 = 1 THEN Float(Sorted[(n + 1) \div 2])
        ELSE Float((Sorted[n \div 2] + Sorted[n \div 2 + 1]) \div 2)

\* df[c] = df[c].replace({np.NaN: df[c].median(skipna=True)})
ReplaceNaNByMedian(df, c) ==
    [i \in DOMAIN df |-> IF df[i][c].nan THEN [df[i] EXCEPT ![c] = Median(Column(df, c))] ELSE df[i]]

LatestFights(df) == GroupByFighterTail(SortValuesByDate(df))

\* The dict comprehensions of the wins and of the losses call int() on every value.
InitRaises(df) ==
    \E i \in DOMAIN LatestFights(df) :
        IntRaises(LatestFights(df)[i].wins) \/ IntRaises(LatestFights(df)[i].losses)

Unset == <<>>
NoCall == [op |-> "none", args |-> <<>>, value |-> <<>>, scored |-> FALSE]

\* fighter_service = FighterService(), then the layout of the page.
Startup ==
    /\ phase = "loading"
    /\ IF InitRaises(fighters_csv)
       THEN /\ phase' = "failed"
            /\ UNCHANGED <<tables, loaded, page>>
       ELSE /\ phase' = "ready"
            /\ \E order \in Perms(Range(Column(fighters_csv, "fighter"))) : fighters' = order
            /\ weight_to_fighters' = WeightToFighters(fighters_csv)
            /\ fighters_to_nicks' =
                   DictOfZip(Column(SherdogCsv, "name"), Column(SherdogCsv, "nick"))
            /\ latest_fights' = LatestFights(fighters_csv)
            /\ LET latest == LatestFights(fighters_csv)
                   Dict(c, Format(_)) ==
                       DictOfZip(Column(latest, "fighter"),
                                 [i \in DOMAIN latest |-> Format(latest[i][c])])
               IN  /\ fighters_to_reach' = Dict("Reach_cms", FormatCms)
                   /\ fighters_to_height' = Dict("Height_cms", FormatCms)
                   /\ fighters_to_wins' = Dict("wins", FormatCount)
                   /\ fighters_to_losses' = Dict("losses", FormatCount)
            /\ fighters_df' =
                   ReplaceNaNByMedian(ReplaceNaNByMedian(fighters_csv, "Reach_cms"), "Height_cms")
            /\ loaded' = tables'
            /\ weight_value' = ""
            /\ red_options' = fighters'
            /\ blue_options' = fighters'
            /\ red_value' = None
            /\ blue_value' = None
    /\ UNCHANGED <<files, ret, results>>

---------------------------------------------------------------------------
(* The lookups of FighterService. *)

Dash == <<"-">>
EmptyStr == <<>>

\* nick in (np.NaN, "nan"): the same object as np.NaN, or equal to "nan" (a NaN
\* equals nothing).
NickIsMissing(nick) ==
    \/ nick.nan /\ nick.obj = "np.nan"
    \/ ~nick.nan /\ nick.s = <<"nan">>

getNickname(fighter) ==
    IF fighter \notin DOMAIN fighters_to_nicks THEN StrCell(EmptyStr)
    ELSE IF NickIsMissing(fighters_to_nicks[fighter]) THEN StrCell(EmptyStr)
    ELSE fighters_to_nicks[fighter]

\* res in (None, np.NaN, "nan", "nan cms"), res a str.
CmsIsMissing(res) == res \in {<<"nan">>, <<"nan", " ", "cms">>}

getReach(fighter) ==
    IF fighter \notin DOMAIN fighters_to_reach THEN Dash
    ELSE IF CmsIsMissing(Strip(fighters_to_reach[fighter])) THEN Dash
    ELSE Strip(fighters_to_reach[fighter])

getHeight(fighter) ==
    IF fighter \notin DOMAIN fighters_to_height THEN Dash
    ELSE IF CmsIsMissing(Strip(fighters_to_height[fighter])) THEN Dash
    ELSE Strip(fighters_to_height[fighter])

getWins(fighter) ==
    IF fighter \notin DOMAIN fighters_to_wins THEN Dash ELSE fighters_to_wins[fighter]

\* Mutant: the placeholder of getNickname instead of "-".
getLossesBlank(fighter) ==
    IF fighter \notin DOMAIN fighters_to_losses THEN EmptyStr ELSE fighters_to_losses[fighter]

getLosses(fighter) ==
    IF fighter \notin DOMAIN fighters_to_losses THEN Dash ELSE fighters_to_losses[fighter]

\* d[k] on a defaultdict(list): a missing key is inserted with an empty list.
DefaultDictGet(d, k) ==
    IF k \in DOMAIN d THEN d ELSE [x \in DOMAIN d \cup {k} |-> IF x = k THEN <<>> ELSE d[x]]

\* getAllFighters on the tables t = <<self.__fighters, self.__weight_to_fighters>>:
\* what it returns and the dictionary it leaves.
getAllFighters(t, weight_class) ==
    IF Falsy(weight_class)
    THEN [value |-> t[1], weight_to_fighters |-> t[2]]
    ELSE [value |-> DefaultDictGet(t[2], weight_class)[weight_class],
          weight_to_fighters |-> DefaultDictGet(t[2], weight_class)]

getWeightClasses ==
    <<<<"Heavyweight", "Heavyweight">>,
      <<"Light Heavyweight (205 lbs.)", "Light Heavyweight">>,
      <<"Middleweight (185 lbs.)", "Middleweight">>,
      <<"Welterweight (170 lbs.)", "Welterweight">>,
      <<"Lightweight (155 lbs.)", "Lightweight">>,
      <<"Featherweight (145 lbs.)", "Featherweight">>,
      <<"Bantamweight (135 lbs.)", "Bantamweight">>,
      <<"Flyweight (125 lbs.)", "Flyweight">>,
      <<"Women's Featherweight (145 lbs.)", "Women's Featherweight">>,
      <<"Women's Bantamweight (135 lbs.)", "Women's Bantamweight">>,
      <<"Women's Flyweight (125 lbs.)", "Women's Flyweight">>,
      <<"Women's Strawweight (115 lbs.)", "Women's Strawweight">>,
      <<"Open Weight", "">>>>

\* The dropdown's values the model selects: the classes of fighters.csv, one class
\* without fighters, Open Weight, and None (the dropdown cleared).
WeightInputs ==
    {v \in {getWeightClasses[i][2] : i \in DOMAIN getWeightClasses} :
        v \in CsvClasses \cup {"Flyweight", ""}} \cup {None}

Call(op, args, value) == [op |-> op, args |-> args, value |-> value, scored |-> FALSE]

GetNickname(f) ==
    /\ phase = "ready"
    /\ ret' = Call("getNickname", <<f>>, getNickname(f))
    /\ UNCHANGED <<phase, files, tables, loaded, page, results>>

GetReach(f) ==
    /\ phase = "ready"
    /\ ret' = Call("getReach", <<f>>, getReach(f))
    /\ UNCHANGED <<phase, files, tables, loaded, page, results>>

GetHeight(f) ==
    /\ phase = "ready"
    /\ ret' = Call("getHeight", <<f>>, getHeight(f))
    /\ UNCHANGED <<phase, files, tables, loaded, page, results>>

GetWins(f) ==
    /\ phase = "ready"
    /\ ret' = Call("getWins", <<f>>, getWins(f))
    /\ UNCHANGED <<phase, files, tables, loaded, page, results>>

GetLosses(f) ==
    /\ phase = "ready"
    /\ ret' = Call("getLosses", <<f>>, getLosses(f))
    /\ UNCHANGED <<phase, files, tables, loaded, page, results>>

GetAllFighters(w) ==
    /\ phase = "ready"
    /\ LET r == getAllFighters(<<fighters, weight_to_fighters>>, w)
       IN  /\ ret' = Call("getAllFighters", <<w>>, r.value)
           /\ weight_to_fighters' = r.weight_to_fighters
    /\ UNCHANGED <<phase, files, fighters_df, fighters, fighters_to_nicks, latest_fights,
                   fighters_to_reach, fighters_to_height, fighters_to_wins,
                   fighters_to_losses, loaded, page, results>>

---------------------------------------------------------------------------
(* FighterService.doPrediction *)

\* A percentage as a fraction: class probabilities are multiples of 1/ProbScale and
\* a fighter's probability is the mean of two of them.
Percent(n) == [num |-> n, den |-> 2 * ProbScale]
Hundred == Percent(100 * 2 * ProbScale)

Result(prob, winner, pos_shaps, neg_shaps, scored) ==
    [prob |-> prob, winner |-> winner, pos_shaps |-> pos_shaps, neg_shaps |-> neg_shaps,
     scored |-> scored]

NoReturn == [winner |-> None, continue |-> TRUE]

\* Mutant: the second return names the red (empty) side.
EarlyReturnSwapped(red_fighter, blue_fighter) ==
    IF ~Falsy(red_fighter) /\ Falsy(blue_fighter)
    THEN Result(Hundred, red_fighter, <<>>, <<>>, FALSE)
    ELSE IF Falsy(red_fighter) /\ ~Falsy(blue_fighter)
    THEN Result(Hundred, red_fighter, <<>>, <<>>, FALSE)
    ELSE IF Falsy(red_fighter) /\ Falsy(blue_fighter)
    THEN Result(Hundred, "-", <<>>, <<>>, FALSE)
    ELSE IF red_fighter = blue_fighter
    THEN Result(Hundred, red_fighter, <<>>, <<>>, FALSE)
    ELSE NoReturn

\* The four early returns of doPrediction.
EarlyReturn(red_fighter, blue_fighter) ==
    IF ~Falsy(red_fighter) /\ Falsy(blue_fighter)
    THEN Result(Hundred, red_fighter, <<>>, <<>>, FALSE)
    ELSE IF Falsy(red_fighter) /\ ~Falsy(blue_fighter)
    THEN Result(Hundred, blue_fighter, <<>>, <<>>, FALSE)
    ELSE IF Falsy(red_fighter) /\ Falsy(blue_fighter)
    THEN Result(Hundred, "-", <<>>, <<>>, FALSE)
    ELSE IF red_fighter = blue_fighter
    THEN Result(Hundred, red_fighter, <<>>, <<>>, FALSE)
    ELSE NoReturn

getByFighter(fighter_name) ==
    SelectSeq(latest_fights, LAMBDA row : row.fighter = fighter_name)

\* (x + 1) / (y + 1), a NaN if either is.
Ratio(x, y) == IF x.nan \/ y.nan THEN NaN ELSE [nan |-> FALSE, v |-> <<x.v + 1, y.v + 1>>]

\* pd.merge(a, b, on="temp_id_", suffixes=("", "_opponent")) of two one-row frames,
\* then the ratio columns and stance_config.
BoutRow(a, b) ==
    [fighter |-> a.fighter, weight_class |-> a.weight_class, date |-> a.date,
     Reach_cms |-> a.Reach_cms, Height_cms |-> a.Height_cms,
     wins |-> a.wins, losses |-> a.losses, Stance |-> a.Stance,
     fighter_opponent |-> b.fighter, weight_class_opponent |-> b.weight_class,
     date_opponent |-> b.date,
     Reach_cms_opponent |-> b.Reach_cms, Height_cms_opponent |-> b.Height_cms,
     wins_opponent |-> b.wins, losses_opponent |-> b.losses, Stance_opponent |-> b.Stance,
     Reach_cms_ratio |-> Ratio(a.Reach_cms, b.Reach_cms),
     Height_cms_ratio |-> Ratio(a.Height_cms, b.Height_cms),
     wins_ratio |-> Ratio(a.wins, b.wins),
     losses_ratio |-> Ratio(a.losses, b.losses),
     stance_config |-> <<a.Stance, "-", b.Stance>>]

\* None is the empty frame <<>>.
makeBoutDf(fighter1, fighter2) ==
    IF Len(getByFighter(fighter1)) # 1 \/ Len(getByFighter(fighter2)) # 1
    THEN <<>>
    ELSE <<BoutRow(getByFighter(fighter1)[1], getByFighter(fighter2)[1]),
           BoutRow(getByFighter(fighter2)[1], getByFighter(fighter1)[1])>>

\* The pipeline and the explainer are opaque functions of the bout row, that is of
\* the two fighters, each having one snapshot.
BoutKey(row) == <<row.fighter, row.fighter_opponent>>

scoreBout(bout) ==
    [probas |-> [i \in DOMAIN bout |-> pipeline[BoutKey(bout[i])]],
     shaps  |-> [i \in DOMAIN bout |-> explainer[BoutKey(bout[i])]]]

\* Twice the fighter's probability: the sum the code halves.
RedFighterProb(probas) == probas[1].True + probas[2].False
BlueFighterProb(probas) == probas[1].False + probas[2].True

\* Mutant: the comparison the other way round.
RedWinsFlipped(probas) == RedFighterProb(probas) < BlueFighterProb(probas)

\* if red_fighter_prob > blue_fighter_prob
RedWins(probas) == RedFighterProb(probas) > BlueFighterProb(probas)

\* Series.sort_values(): the index in ascending order of the values (distinct here).
SortValues(vals) ==
    [k \in 1..Cardinality(DOMAIN vals) |->
        CHOOSE c \in DOMAIN vals : Cardinality({d \in DOMAIN vals : vals[d] < vals[c]}) = k - 1]

\* index[:3] and index[-3:]
First3(index) == SubSeq(index, 1, IF Len(index) < 3 THEN Len(index) ELSE 3)
Last3(index) == SubSeq(index, IF Len(index) < 3 THEN 1 ELSE Len(index) - 2, Len(index))

\* self.__feature_to_name[s].strip() if s in self.__feature_to_name else ""
FeatureName(s) == IF s \in DOMAIN FeatureToName THEN Strip(FeatureToName[s]) ELSE EmptyStr

NegShaps(index) == [i \in DOMAIN First3(index) |-> FeatureName(First3(index)[i])]
PosShaps(index) == [i \in DOMAIN Last3(index) |-> FeatureName(Last3(index)[i])]

\* Mutant: the return of the identical fighters, copied.
NoBoutReturnRed(red_fighter, blue_fighter) == Result(Hundred, red_fighter, <<>>, <<>>, FALSE)

\* if bout is None: return 100.0, "-", [], []
NoBoutReturn(red_fighter, blue_fighter) == Result(Hundred, "-", <<>>, <<>>, FALSE)

doPrediction(red_fighter, blue_fighter) ==
    IF EarlyReturn(red_fighter, blue_fighter) # NoReturn
    THEN EarlyReturn(red_fighter, blue_fighter)
    ELSE IF makeBoutDf(red_fighter, blue_fighter) = <<>>
    THEN NoBoutReturn(red_fighter, blue_fighter)
    ELSE
        LET score == scoreBout(makeBoutDf(red_fighter, blue_fighter))
            probas == score.probas
            shap_values == IF RedWins(probas) THEN score.shaps[1] ELSE score.shaps[2]
            winner_prob == IF RedWins(probas) THEN RedFighterProb(probas)
                                              ELSE BlueFighterProb(probas)
            winner == IF RedWins(probas) THEN red_fighter ELSE blue_fighter
            index == SortValues(shap_values)
        IN  Result(Percent(winner_prob * 100), winner, PosShaps(index), NegShaps(index), TRUE)

DoPrediction(r, b) ==
    /\ phase = "ready"
    /\ LET res == doPrediction(r, b)
       IN  ret' = [op |-> "doPrediction", args |-> <<r, b>>,
                   value |-> <<res.prob, res.winner, res.pos_shaps, res.neg_shaps>>,
                   scored |-> res.scored]
    /\ UNCHANGED <<phase, files, tables, loaded, page, results>>

---------------------------------------------------------------------------
(* The callbacks of the page. *)

\* The bullets makePrediction writes for a list of three labels a, b, c, in its
\* order: a always, b if it is not empty and not a, c if not empty and not a or b.
Bullets(a, b, c) ==
    <<a>> \o (IF b # EmptyStr /\ b # a THEN <<b>> ELSE <<>>)
          \o (IF c # EmptyStr /\ c \notin {a, b} THEN <<c>> ELSE <<>>)

\* round(100 * prob), the two decimals of {prob:.2f}.
Hundredths(prob) == (2 * 100 * prob.num + prob.den) \div (2 * prob.den)

\* What makePrediction makes of doPrediction's result: the empty Markdown, the
\* text (winner, confidence, the two bullet lists), or a ValueError when a
\* non-empty factor list does not unpack into three names.
makePrediction(res) ==
    IF res.winner = "-" THEN [kind |-> "empty"]
    ELSE IF res.pos_shaps # <<>> /\ res.neg_shaps # <<>>
    THEN IF Len(res.pos_shaps) # 3 \/ Len(res.neg_shaps) # 3
         THEN [kind |-> "raised"]
         ELSE [kind |-> "text", winner |-> res.winner, confidence |-> Hundredths(res.prob),
               favor |-> Bullets(res.pos_shaps[1], res.pos_shaps[2], res.pos_shaps[3]),
               counter |-> Bullets(res.neg_shaps[3], res.neg_shaps[2], res.neg_shaps[1])]
    ELSE [kind |-> "text", winner |-> res.winner, confidence |-> Hundredths(res.prob),
          favor |-> <<>>, counter |-> <<>>]

\* makePrediction(r_fighter, b_fighter): the call of doPrediction and the rendering.
MakePrediction(r, b) ==
    /\ phase = "ready"
    /\ LET res == doPrediction(r, b)
       IN  /\ ret' = [op |-> "doPrediction", args |-> <<r, b>>,
                      value |-> <<res.prob, res.winner, res.pos_shaps, res.neg_shaps>>,
                      scored |-> res.scored]
           /\ results' = makePrediction(res)
    /\ UNCHANGED <<phase, files, tables, loaded, page>>

\* red_fighter if red_fighter in fighters else None
KeepIfListed(fighter, listed) == IF fighter \in Range(listed) THEN fighter ELSE None

\* Mutant: the blue corner's check reads the red corner's fighter.
setFightersByWeightClassRedTwice(t, weight, red_fighter, blue_fighter) ==
    LET r == getAllFighters(t, weight)
    IN  [red_options |-> r.value, blue_options |-> r.value,
         red_value |-> KeepIfListed(red_fighter, r.value),
         blue_value |-> IF red_fighter \in Range(r.value) THEN blue_fighter ELSE None,
         weight_to_fighters |-> r.weight_to_fighters]

\* setFightersByWeightClass(weight, red_fighter, blue_fighter) on the tables t:
\* the four outputs and the dictionary getAllFighters leaves.
setFightersByWeightClass(t, weight, red_fighter, blue_fighter) ==
    LET r == getAllFighters(t, weight)
    IN  [red_options |-> r.value, blue_options |-> r.value,
         red_value |-> KeepIfListed(red_fighter, r.value),
         blue_value |-> KeepIfListed(blue_fighter, r.value),
         weight_to_fighters |-> r.weight_to_fighters]

\* The weight class is chosen and Dash runs the callback with the corners' values.
SetFightersByWeightClass(w) ==
    /\ phase = "ready"
    /\ LET out == setFightersByWeightClass(<<fighters, weight_to_fighters>>, w,
                                           red_value, blue_value)
       IN  /\ weight_value' = w
           /\ red_options' = out.red_options
           /\ blue_options' = out.blue_options
           /\ red_value' = out.red_value
           /\ blue_value' = out.blue_value
           /\ weight_to_fighters' = out.weight_to_fighters
           /\ ret' = Call("getAllFighters", <<w>>, out.red_options)
    /\ UNCHANGED <<phase, files, fighters_df, fighters, fighters_to_nicks, latest_fights,
                   fighters_to_reach, fighters_to_height, fighters_to_wins,
                   fighters_to_losses, loaded, results>>

\* The user picks one of the red corner's options, or clears the dropdown.
SelectRed(f) ==
    /\ phase = "ready"
    /\ f \in Range(red_options) \cup {None}
    /\ red_value' = f
    /\ UNCHANGED <<phase, files, tables, loaded, ret, results,
                   weight_value, red_options, blue_options, blue_value>>

SelectBlue(f) ==
    /\ phase = "ready"
    /\ f \in Range(blue_options) \cup {None}
    /\ blue_value' = f
    /\ UNCHANGED <<phase, files, tables, loaded, ret, results,
                   weight_value, red_options, blue_options, red_value>>

---------------------------------------------------------------------------
(* Specifications. *)

Features(n) == SubSeq(FeatureCodes, 1, n)

\* The attribution vectors over n features: the values are the ranks 1..n in any
\* order, so every order of the features occurs.
Attributions(n) ==
    {[c \in Range(Features(n)) |-> p[CHOOSE i \in 1..n : FeatureCodes[i] = c]] : p \in Perms(1..n)}

\* The attributions rise with the feature's place in the list.
FixedAttribution(n) == [c \in Range(Features(n)) |-> CHOOSE i \in 1..n : FeatureCodes[i] = c]

InitState ==
    /\ phase = "loading"
    /\ fighters_df = Unset /\ fighters = Unset /\ weight_to_fighters = Unset
    /\ fighters_to_nicks = Unset /\ latest_fights = Unset
    /\ fighters_to_reach = Unset /\ fighters_to_height = Unset
    /\ fighters_to_wins = Unset /\ fighters_to_losses = Unset
    /\ loaded = Unset
    /\ ret = NoCall
    /\ weight_value = None /\ red_options = <<>> /\ blue_options = <<>>
    /\ red_value = None /\ blue_value = None
    /\ results = [kind |-> "empty"]

FixedModel ==
    /\ pipeline = FixedPipeline
    /\ features = Features(3)
    /\ explainer = [k \in BoutKeys |-> FixedAttribution(3)]

\* The service's lookups over every fighters.csv of the bounds with no statistic
\* missing.
Init ==
    /\ InitState
    /\ fighters_csv \in CompleteCsvFiles
    /\ FixedModel

Next ==
    \/ Startup
    \/ \E w \in WeightInputs : GetAllFighters(w)
    \/ \E f \in LookupArgs : GetNickname(f)
    \/ \E f \in LookupArgs : GetReach(f)
    \/ \E f \in LookupArgs : GetHeight(f)
    \/ \E f \in LookupArgs : GetWins(f)
    \/ \E f \in LookupArgs : GetLosses(f)

Spec == Init /\ [][Next]_vars

\* The same over the files with at most one statistic missing.
InitMissing ==
    /\ InitState
    /\ fighters_csv \in CsvFiles
    /\ FixedModel

NextMissing ==
    \/ Startup
    \/ \E f \in LookupArgs : GetNickname(f)
    \/ \E f \in LookupArgs : GetReach(f)
    \/ \E f \in LookupArgs : GetHeight(f)
    \/ \E f \in LookupArgs : GetWins(f)
    \/ \E f \in LookupArgs : GetLosses(f)

SpecMissing == InitMissing /\ [][NextMissing]_vars

\* The predictor over every pipeline of the bounds, with one fighters.csv.
InitPredict ==
    /\ InitState
    /\ fighters_csv = TwoFighterCsv
    /\ pipeline \in Pipelines
    /\ features = Features(3)
    /\ explainer = [k \in BoutKeys |-> FixedAttribution(3)]

NextPredict ==
    \/ Startup
    \/ \E r \in PredictArgs, b \in PredictArgs : DoPrediction(r, b)

SpecPredict == InitPredict /\ [][NextPredict]_vars

\* The factors over every attribution vector of six features down to one, with one
\* fighters.csv and one pipeline. Under FixedPipeline the winner is the same fighter
\* in both argument orders, so one bout row's attribution is ever read; the other
\* row is given the same vector.
InitFactors ==
    /\ InitState
    /\ fighters_csv = TwoFighterCsv
    /\ pipeline = FixedPipeline
    /\ \E dropped \in 0..(Len(FeatureCodes) - 1) :
          LET n == Len(FeatureCodes) - dropped
          IN  /\ features = Features(n)
              /\ \E attr \in Attributions(n) : explainer = [k \in BoutKeys |-> attr]

NextFactors ==
    \/ Startup
    \/ \E r \in FactorArgs, b \in FactorArgs : MakePrediction(r, b)

SpecFactors == InitFactors /\ [][NextFactors]_vars

\* The page's dropdowns over every fighters.csv of the bounds with no statistic
\* missing, in date order.
InitPage ==
    /\ InitState
    /\ fighters_csv \in PlainCsvFiles
    /\ FixedModel

NextPage ==
    \/ Startup
    \/ \E w \in WeightInputs : SetFightersByWeightClass(w)
    \/ \E f \in StatsFighters \cup {None} : SelectRed(f)
    \/ \E f \in StatsFighters \cup {None} : SelectBlue(f)

SpecPage == InitPage /\ [][NextPage]_vars

---------------------------------------------------------------------------
(* The claims. *)

Count(seq, x) == Cardinality({i \in DOMAIN seq : seq[i] = x})
NoDuplicates(seq) == \A i, j \in DOMAIN seq : seq[i] = seq[j] => i = j

\* The rows of fighters.csv of a fighter, and the latest of them.
RowsOf(f) == {i \in DOMAIN fighters_csv : fighters_csv[i].fighter = f}
LatestRowOf(f) ==
    fighters_csv[CHOOSE i \in RowsOf(f) :
                    \A j \in RowsOf(f) : fighters_csv[j].date <= fighters_csv[i].date]
CsvFighters == {fighters_csv[i].fighter : i \in DOMAIN fighters_csv}

Predicted == phase = "ready" /\ ret.op = "doPrediction"
RedArg == ret.args[1]
BlueArg == ret.args[2]
Snapshots(f) == Cardinality({i \in DOMAIN latest_fights : latest_fights[i].fighter = f})
Sentinel == <<Hundred, "-", <<>>, <<>>>>

\* The request is of two distinct non-empty fighters with one snapshot each.
Scorable ==
    /\ Predicted
    /\ ~Falsy(RedArg) /\ ~Falsy(BlueArg) /\ RedArg # BlueArg
    /\ Snapshots(RedArg) = 1 /\ Snapshots(BlueArg) = 1

\* Twice the averaged probability of fighter f against o: f's True where f is
\* self plus o's False where o is self.
Averaged(f, o) == pipeline[<<f, o>>].True + pipeline[<<o, f>>].False

\* C1 (as stated): the declared winner of a scorable request is the declared
\* winner of the request with the two arguments exchanged, ties included.
Orig_C1 == Scorable => ret.value[2] = doPrediction(BlueArg, RedArg).winner

\* C2 (as stated): each factor list of a prediction, as returned and as the page
\* lists it, has at most 3 entries, no label twice, and no label of the other list.
Orig_C2 ==
    /\ Predicted =>
          /\ Len(ret.value[3]) <= 3 /\ Len(ret.value[4]) <= 3
          /\ NoDuplicates(ret.value[3]) /\ NoDuplicates(ret.value[4])
          /\ Range(ret.value[3]) \cap Range(ret.value[4]) = {}
    /\ (phase = "ready" /\ results.kind = "text") =>
          /\ Len(results.favor) <= 3 /\ Len(results.counter) <= 3
          /\ NoDuplicates(results.favor) /\ NoDuplicates(results.counter)
          /\ Range(results.favor) \cap Range(results.counter) = {}

\* The part of C2 that the page's own checks establish: what the page lists has at
\* most 3 entries per list and no label twice within a list.
Rendered_C2 ==
    (phase = "ready" /\ results.kind = "text") =>
        /\ Len(results.favor) <= 3 /\ Len(results.counter) <= 3
        /\ NoDuplicates(results.favor) /\ NoDuplicates(results.counter)

\* The part that fails even of what the page lists, with six features: no label
\* in both lists.
RenderedApart_C2 ==
    (phase = "ready" /\ results.kind = "text" /\ Len(features) = 6) =>
        Range(results.favor) \cap Range(results.counter) = {}

\* The call was getAllFighters with a non-empty weight class.
FilteredByClass == phase = "ready" /\ ret.op = "getAllFighters" /\ ~Falsy(ret.args[1])

Orig_C4 == phase = "ready" => tables = loaded

\* What C4 says of the results: a lookup of the roster gives what it would have
\* given right after startup.
Results_C4 ==
    (phase = "ready" /\ ret.op = "getAllFighters") =>
        ret.value = getAllFighters(<<loaded[2], loaded[3]>>, ret.args[1]).value

\* C5: a request of two distinct non-empty fighters of which one has not exactly
\* one snapshot returns (100.0, "-", [], []) and scores nothing.
Thm_C5 ==
    (/\ Predicted
     /\ ~Falsy(RedArg) /\ ~Falsy(BlueArg) /\ RedArg # BlueArg
     /\ (Snapshots(RedArg) # 1 \/ Snapshots(BlueArg) # 1))
    => ret.value = Sentinel /\ ~ret.scored

\* The blue fighter has no snapshot and the request returned.
Wit_C5 ==
    /\ Predicted /\ RedArg = "Ann" /\ BlueArg = "Zed"
    /\ Snapshots("Ann") = 1 /\ Snapshots("Zed") = 0
    /\ ret.value = Sentinel

\* C6: a degenerate request returns 100%, no factors, and as winner the non-empty
\* side, the shared name, or "-" when both sides are empty; nothing is scored.
Thm_C6 ==
    (Predicted /\ (Falsy(RedArg) \/ Falsy(BlueArg) \/ RedArg = BlueArg)) =>
        /\ ret.value[1] = Hundred /\ ret.value[3] = <<>> /\ ret.value[4] = <<>>
        /\ ~ret.scored
        /\ (~Falsy(RedArg) /\ Falsy(BlueArg)) => ret.value[2] = RedArg
        /\ (Falsy(RedArg) /\ ~Falsy(BlueArg)) => ret.value[2] = BlueArg
        /\ (~Falsy(RedArg) /\ RedArg = BlueArg) => ret.value[2] = RedArg
        /\ (Falsy(RedArg) /\ Falsy(BlueArg)) => ret.value[2] = "-"

\* The red side is empty and the blue fighter, unknown to the tables, wins.
Wit_C6 == Predicted /\ RedArg = "" /\ BlueArg = "Zed" /\ ret.value[2] = "Zed"

\* C7: an accessor called with a name that is not a key of its map returns its
\* placeholder: "" for the nickname, "-" for the others.
Thm_C7 ==
    phase = "ready" =>
        /\ (ret.op = "getNickname" /\ ret.args[1] \notin DOMAIN fighters_to_nicks)
              => ret.value = StrCell(EmptyStr)
        /\ (ret.op = "getReach" /\ ret.args[1] \notin DOMAIN fighters_to_reach)
              => ret.value = Dash
        /\ (ret.op = "getHeight" /\ ret.args[1] \notin DOMAIN fighters_to_height)
              => ret.value = Dash
        /\ (ret.op = "getWins" /\ ret.args[1] \notin DOMAIN fighters_to_wins)
              => ret.value = Dash
        /\ (ret.op = "getLosses" /\ ret.args[1] \notin DOMAIN fighters_to_losses)
              => ret.value = Dash

\* The losses of a fighter who has a nickname but no statistics were asked for.
Wit_C7 ==
    /\ phase = "ready" /\ ret.op = "getLosses" /\ ret.args[1] = "Dee"
    /\ "Dee" \notin DOMAIN fighters_to_losses /\ "Dee" \in DOMAIN fighters_to_nicks
    /\ ret.value = Dash

\* C8 (as stated): with a statistic of a fighter's latest record missing, or the
\* nickname missing, startup completes and the accessor returns its placeholder.
Orig_C8 ==
    /\ phase # "failed"
    /\ phase = "ready" =>
          /\ (ret.op = "getNickname" /\ ret.args[1] \in DOMAIN fighters_to_nicks
                  /\ fighters_to_nicks[ret.args[1]].nan)
                => ret.value = StrCell(EmptyStr)
          /\ \A c \in StatColumns :
                (/\ ret.op = (CASE c = "Reach_cms" -> "getReach" [] c = "Height_cms" -> "getHeight"
                                [] c = "wins" -> "getWins" [] c = "losses" -> "getLosses")
                 /\ ret.args[1] \in CsvFighters
                 /\ LatestRowOf(ret.args[1])[c].nan)
                => ret.value = Dash

\* The part of C8 that holds: startup fails only on missing wins or losses of a
\* latest record, and after a completed startup the accessors give the placeholders.
Partial_C8 ==
    /\ phase = "failed" =>
          \E f \in CsvFighters : LatestRowOf(f).wins.nan \/ LatestRowOf(f).losses.nan
    /\ phase = "ready" =>
          /\ (ret.op = "getNickname" /\ ret.args[1] \in DOMAIN fighters_to_nicks
                  /\ fighters_to_nicks[ret.args[1]].nan)
                => ret.value = StrCell(EmptyStr)
          /\ (ret.op = "getReach" /\ ret.args[1] \in CsvFighters
                  /\ LatestRowOf(ret.args[1]).Reach_cms.nan) => ret.value = Dash
          /\ (ret.op = "getHeight" /\ ret.args[1] \in CsvFighters
                  /\ LatestRowOf(ret.args[1]).Height_cms.nan) => ret.value = Dash

\* C9: the winner of a scorable request is one of the two fighters, its averaged
\* probability is not below the other's (a strictly higher side wins), the
\* confidence is 100 times it, and is between 50 and 100 when each row sums to 1.
Thm_C9 ==
    Scorable =>
        LET winner == ret.value[2]
            loser == IF winner = RedArg THEN BlueArg ELSE RedArg
        IN  /\ ret.scored
            /\ winner \in {RedArg, BlueArg}
            /\ Averaged(winner, loser) >= Averaged(loser, winner)
            /\ ret.value[1] = [num |-> 100 * Averaged(winner, loser), den |-> 2 * ProbScale]
            /\ (\A k \in {<<RedArg, BlueArg>>, <<BlueArg, RedArg>>} :
                    pipeline[k].True + pipeline[k].False = ProbScale)
               => /\ 50 * ret.value[1].den <= ret.value[1].num
                  /\ ret.value[1].num <= 100 * ret.value[1].den

\* The red fighter wins with a strictly higher averaged probability, below 1.
Wit_C9 ==
    /\ Scorable /\ ret.value[2] = RedArg
    /\ Averaged(RedArg, BlueArg) > Averaged(BlueArg, RedArg)
    /\ pipeline[<<RedArg, BlueArg>>].True + pipeline[<<RedArg, BlueArg>>].False = ProbScale
    /\ pipeline[<<BlueArg, RedArg>>].True + pipeline[<<BlueArg, RedArg>>].False = ProbScale
    /\ ret.value[1].num < 100 * ret.value[1].den

\* C10: once the page is up both corners list getAllFighters of the chosen class
\* (the roster for Open Weight and for None) and a corner's value is None or one of
\* its options; a run of setFightersByWeightClass that changes the class leaves
\* each corner's value as it was if it is listed and None otherwise.
Thm_C10 ==
    [][/\ phase' = "ready" =>
            /\ red_options' = getAllFighters(<<loaded'[2], loaded'[3]>>, weight_value').value
            /\ blue_options' = red_options'
            /\ red_value' \in Range(red_options') \cup {None}
            /\ blue_value' \in Range(blue_options') \cup {None}
       /\ (phase = "ready" /\ weight_value' # weight_value) =>
            /\ red_value' = IF red_value \in Range(red_options') THEN red_value ELSE None
            /\ blue_value' = IF blue_value \in Range(blue_options') THEN blue_value ELSE None
      ]_vars

\* A class is chosen that lists only one of the two fighters: the blue corner
\* keeps her, the red corner is empty.
Wit_C10 ==
    /\ phase = "ready" /\ weight_value = "Welterweight"
    /\ Range(fighters) = {"Ann", "Bea"}
    /\ red_options = <<"Bea">> /\ blue_options = <<"Bea">>
    /\ blue_value = "Bea" /\ red_value = None

=============================================================================
